---- MODULE Spec2Model ----
(***************************************************************************)
(* Model of the bookshelf authentication service (auth-service/routers/    *)
(* users.py over auth.py and models.py): the credential store, the token   *)
(* codec, the refresh-token ledger and the handlers register, login,       *)
(* refresh, validate, forgot-password and reset-password.                  *)
(*                                                                         *)
(* Time is an integer number of clock ticks; a second has TicksPerSecond   *)
(* ticks, so that the codec's conversion of a datetime to whole seconds    *)
(* is a real truncation.  Minutes and days are scaled down to a few        *)
(* seconds to keep the clock small.                                        *)
(***************************************************************************)
EXTENDS Integers, Sequences, FiniteSets, TLC

\* ---------------------------------------------------------------- bounds
TicksPerSecond == 2     \* sub-second resolution of datetime.utcnow()
MinuteSeconds == 1      \* scaled length of a minute, in seconds
DaySeconds == 1         \* scaled length of a day, in seconds
OtpExpireMinutes == 1   \* scaled timedelta(minutes=15) of the OTP
RefreshExpireDays == 1  \* scaled REFRESH_TOKEN_EXPIRE_DAYS
MaxAccessMinutes == 1   \* ACCESS_TOKEN_EXPIRE_MINUTES ranges over 0..MaxAccessMinutes
MaxTime == 4            \* the clock stops after MaxTime ticks
MaxLedger == 3          \* cap on the number of refresh_tokens rows

Names == {"Ann"}
Emails == {"a@x.com", "b@x.com"}
Passwords == {"secret1", "secret2"}
Salts == {"s1", "s2"}
OtpDraws == {7, 42}     \* values secrets.randbelow(1000000) returns
Procs == {1, 2}         \* concurrent refresh requests
Titles == {"t1", "t2"}  \* book titles
BookIds == {1}          \* ids the books table gives out
QueryTitles == {""}     \* values of get_books' title filter; "" is no filter
Callers == {<<1, "user">>, <<2, "user">>, <<3, "admin">>}  \* (user_id, role)

NoHash == <<>>          \* a NULL hash column
NoTime == -1            \* a NULL DateTime column
NoResp == [op |-> "none"]
NoToken == [type |-> "none"]
NoId == 0               \* a payload without the "id" claim
NonNumericId == -2      \* an "id" claim int() cannot convert, such as "abc"
NoHeld == [token |-> NoToken, at |-> NoTime]
IdleProc == [pc |-> "idle", token |-> NoToken, row |-> 0, late |-> FALSE,
             edge |-> FALSE]
NoImage == ""           \* a NULL image_url column
NoPayload == [items |-> <<>>, total |-> -1]   \* redis GET returns nothing
IdleRead == [pc |-> "idle"]

VARIABLES
    now,              \* datetime.utcnow(), in ticks
    settings,         \* environment configuration, fixed at start
    users,            \* table users: sequence of User rows, id = position
    refresh_tokens,   \* table refresh_tokens: sequence of RefreshToken rows;
                      \* via (history): the handler that added the row
    proc,             \* refresh requests in flight; late: the token had already
                      \* been rotated when the request arrived; edge: the row
                      \* found had expires_at equal to the time of arrival
    resp,             \* the HTTP response produced by the last step; reuse: the
                      \* token had already been rotated when the response left;
                      \* cause: what the ledger held for a refresh on arrival
    lastOtp,          \* history: email -> OTP most recently issued, when, and
                      \* whether a reset has used it
    consumed,         \* history: refresh tokens a successful refresh has rotated
    held,             \* history: access token most recently issued and when
    books,            \* book-service table books: sequence of Book rows
    book_seq,         \* the last id the books table has given out
    cache,            \* redis: cache key -> stored get_books payload
    reading           \* a get_books in flight between its query and its setex

vars == <<now, settings, users, refresh_tokens, proc, resp, lastOtp, consumed,
          held, books, book_seq, cache, reading>>

\* what the auth-service handlers never touch
bookVars == <<books, book_seq, cache, reading>>

\* what the book-service handlers never touch
authVars == <<now, settings, users, refresh_tokens, proc, lastOtp, consumed, held>>

\* ------------------------------------------------------------ time
utcnow == now

\* jose converts a datetime claim with timegm(dt.utctimetuple()): whole seconds
timegm(t) == t \div TicksPerSecond

timedelta_minutes(m) == m * MinuteSeconds * TicksPerSecond

timedelta_days(d) == d * DaySeconds * TicksPerSecond

\* ------------------------------------------------------------ auth.py
hash_password(password, salt) == <<"pbkdf2_sha256", salt, password>>

verify_password(password, hash) == hash = hash_password(password, hash[2])

hash_token(token) == <<"sha256", token>>

\* jwt.encode: HS256 over the payload; exp is stored in whole seconds
_create_token(data, expires_delta) ==
    LET expire == utcnow + expires_delta
    IN  [id |-> data.id, role |-> data.role, type |-> data.type,
         exp |-> timegm(expire), sig |-> "HS256"]

create_access_token(user_id, role) ==
    _create_token([id |-> user_id, role |-> role, type |-> "access"],
                  timedelta_minutes(settings.ACCESS_TOKEN_EXPIRE_MINUTES))

create_refresh_token(user_id, role) ==
    _create_token([id |-> user_id, role |-> role, type |-> "refresh"],
                  timedelta_days(RefreshExpireDays))

\* jose _validate_exp: raises when exp < now (whole seconds)
jwt_expired(token) == token.exp < timegm(utcnow)

decode_token(token) ==
    IF token.sig # "HS256" \/ jwt_expired(token)
    THEN [status |-> 401, detail |-> "Invalid or expired token"]
    ELSE [status |-> 200, payload |-> token]

\* ------------------------------------------------------------ tables
UserIds == 1..Len(users)

EmailRows(email) == {i \in UserIds : users[i].email = email}

\* db.query(User).filter(User.email == email).first(); 0 when there is none
UserByEmail(email) ==
    IF EmailRows(email) = {} THEN 0
    ELSE CHOOSE i \in EmailRows(email) : \A j \in EmailRows(email) : i <= j

LedgerIds == 1..Len(refresh_tokens)

HashRows(h) == {i \in LedgerIds : refresh_tokens[i].token_hash = h}

\* db.query(RefreshToken).filter(token_hash == h).first(); 0 when there is none
TokenByHash(h) ==
    IF HashRows(h) = {} THEN 0
    ELSE CHOOSE i \in HashRows(h) : \A j \in HashRows(h) : i <= j

NewRefreshRow(user_id, token) ==
    [user_id |-> user_id, token_hash |-> hash_token(token),
     expires_at |-> utcnow + timedelta_days(RefreshExpireDays),
     revoked |-> FALSE]

\* the tokens clients hold: every ledger row was created for a token that
\* was returned to a caller
IssuedRefreshTokens == {refresh_tokens[i].token_hash[2] : i \in LedgerIds}

Forged(token) == [token EXCEPT !.sig = "forged"]

PresentedTokens ==
    LET real == IssuedRefreshTokens \cup (IF held = NoHeld THEN {} ELSE {held.token})
    IN  real \cup {Forged(t) : t \in real}

\* f"{n:06d}": the six decimal digits of n, as a string of digits
Format06d(n) == [i \in 1..6 |-> (n \div (10 ^ (6 - i))) % 10]

\* OTP strings a caller may type: the issued codes, and a four-character
\* string that schemas.ResetPasswordRequest (min_length=4) also accepts
OtpInputs == {Format06d(n) : n \in OtpDraws} \cup {<<0, 0, 4, 2>>}

\* ------------------------------------------------------------ book rows
\* the cache key of books.py 202-214: "books", user_id, role and the filters
CacheKey(user_id, role, title) == <<"books", user_id, role, title>>

CacheKeys == {CacheKey(c[1], c[2], q) : c \in Callers, q \in QueryTitles}

BookRows == 1..Len(books)

\* the position of the row with this id, 0 if there is none
BookById(book_id) ==
    IF \E i \in BookRows : books[i].id = book_id
    THEN CHOOSE i \in BookRows : books[i].id = book_id
    ELSE 0

\* the bearer tokens callers of the book service send: the access tokens
\* of the callers and one refresh token
BookTokens ==
    {create_access_token(c[1], c[2]) : c \in Callers}
        \cup {create_refresh_token(1, "user")}

\* the status HTTPBearer() answers when the header is absent: 403 up to
\* FastAPI 0.121, 401 from then on
NotAuthenticated == {401, 403}

\* a request on its way in: its credentials, how the call to the auth
\* service goes if one is made, and what HTTPBearer answers if it refuses
BookRequests ==
    {<<NoToken, "up", s>> : s \in NotAuthenticated}
        \cup {<<t, n, 401>> : t \in BookTokens, n \in {"up", "down"}}

\* every token a caller may put in the Authorization header: any payload,
\* signed with the service's key or not
AnyTokens ==
    [id : {1, NoId, NonNumericId}, role : {"user"}, type : {"access", "refresh"},
     exp : 0..(MaxTime \div TicksPerSecond), sig : {"HS256", "forged"}]

\* ------------------------------------------------------------ Init
Init ==
    /\ now = 0
    /\ settings \in [ACCESS_TOKEN_EXPIRE_MINUTES : 0..MaxAccessMinutes,
                     email_configured : BOOLEAN]
    /\ users = <<>>
    /\ refresh_tokens = <<>>
    /\ proc = [p \in Procs |-> IdleProc]
    /\ resp = NoResp
    /\ lastOtp = [e \in Emails |-> [otp |-> <<>>, at |-> NoTime, used |-> FALSE,
                                     prev |-> <<>>]]
    /\ consumed = {}
    /\ held = NoHeld
    /\ books = <<>>
    /\ book_seq = 0
    /\ cache = [k \in CacheKeys |-> NoPayload]
    /\ reading = IdleRead

\* ------------------------------------------------------------ handlers
\* a register that skips the existence check
EmailTakenUnchecked(email) == FALSE

\* existing_user is found
EmailTaken(email) == UserByEmail(email) # 0

\* POST /users/register
register(name, email, password, salt) ==
    /\ IF EmailTaken(email)
       THEN /\ resp' = [op |-> "register", email |-> email, status |-> 409,
                        detail |-> "Email already registered"]
            /\ UNCHANGED users
       ELSE LET new_user == [id |-> Len(users) + 1, name |-> name, email |-> email,
                             password |-> hash_password(password, salt),
                             role |-> "user", reset_code_hash |-> NoHash,
                             reset_code_expires_at |-> NoTime]
            IN  /\ users' = Append(users, new_user)
                /\ resp' = [op |-> "register", email |-> email, status |-> 201,
                            body |-> [id |-> new_user.id, name |-> name,
                                      email |-> email, role |-> new_user.role]]
    /\ UNCHANGED bookVars
    /\ UNCHANGED <<now, settings, refresh_tokens, proc, lastOtp, consumed, held>>

\* POST /users/register, up to the existence check of lines 59-64
register_check(p, name, email, password, salt) ==
    /\ proc[p].pc = "idle"
    /\ IF EmailTaken(email)
       THEN /\ resp' = [op |-> "register", email |-> email, status |-> 409,
                        detail |-> "Email already registered"]
            /\ UNCHANGED proc
       ELSE /\ proc' = [proc EXCEPT ![p] =
                           [pc |-> "insert", name |-> name, email |-> email,
                            password |-> hash_password(password, salt)]]
            /\ resp' = NoResp
    /\ UNCHANGED bookVars
    /\ UNCHANGED <<now, settings, users, refresh_tokens, lastOtp, consumed, held>>

\* POST /users/register, the insert and its commit
register_commit(p) ==
    LET new_user == [id |-> Len(users) + 1, name |-> proc[p].name,
                     email |-> proc[p].email, password |-> proc[p].password,
                     role |-> "user", reset_code_hash |-> NoHash,
                     reset_code_expires_at |-> NoTime]
    IN
    /\ proc[p].pc = "insert"
    /\ proc' = [proc EXCEPT ![p] = IdleProc]
    /\ IF EmailRows(new_user.email) # {}
       THEN \* email is unique: db.commit() raises IntegrityError
            /\ resp' = [op |-> "register", email |-> new_user.email, status |-> 500,
                        detail |-> "Internal Server Error"]
            /\ UNCHANGED users
       ELSE /\ users' = Append(users, new_user)
            /\ resp' = [op |-> "register", email |-> new_user.email, status |-> 201,
                        body |-> [id |-> new_user.id, name |-> new_user.name,
                                  email |-> new_user.email, role |-> new_user.role]]
    /\ UNCHANGED bookVars
    /\ UNCHANGED <<now, settings, refresh_tokens, lastOtp, consumed, held>>

\* POST /users/login
login(email, password) ==
    LET u == UserByEmail(email)
        db_user == users[u]
        role == IF db_user.role = "" THEN "user" ELSE db_user.role
        access_token == create_access_token(db_user.id, role)
        refresh_token == create_refresh_token(db_user.id, role)
        row == NewRefreshRow(db_user.id, refresh_token) @@ [via |-> "login"]
        head == [op |-> "login", email |-> email, password |-> password]
    IN
    /\ IF u = 0
       THEN /\ resp' = head @@ [status |-> 400, detail |-> "User not found"]
            /\ UNCHANGED <<refresh_tokens, held>>
       ELSE IF ~verify_password(password, db_user.password)
       THEN /\ resp' = head @@ [status |-> 400, detail |-> "Wrong password"]
            /\ UNCHANGED <<refresh_tokens, held>>
       ELSE IF HashRows(row.token_hash) # {}
       THEN \* token_hash is unique: db.commit() raises IntegrityError
            /\ resp' = head @@ [status |-> 500, detail |-> "Internal Server Error"]
            /\ UNCHANGED <<refresh_tokens, held>>
       ELSE /\ Len(refresh_tokens) < MaxLedger
            /\ refresh_tokens' = Append(refresh_tokens, row)
            /\ held' = [token |-> access_token, at |-> utcnow]
            /\ resp' = head @@ [status |-> 200, token |-> access_token,
                                refresh_token |-> refresh_token]
    /\ UNCHANGED bookVars
    /\ UNCHANGED <<now, settings, users, proc, lastOtp, consumed>>

\* a rotation that leaves the consumed row usable
RevokeForgotten(rows, t) == rows

\* a rotation that also ends the consumed row's lifetime
RevokeAndExpire(rows, t) ==
    [rows EXCEPT ![t].revoked = TRUE, ![t].expires_at = utcnow]

\* db_token.revoked = True
Revoke(rows, t) == [rows EXCEPT ![t].revoked = TRUE]

\* the test of users.py line 121 on the row found
Unusable(db_token) == db_token.revoked \/ db_token.expires_at < utcnow

\* what the query of users.py 115-119 found for the hash, row t or none
LedgerCause(t) ==
    IF t = 0 THEN "absent"
    ELSE IF refresh_tokens[t].revoked THEN "revoked"
    ELSE IF refresh_tokens[t].expires_at < utcnow THEN "expired"
    ELSE "usable"

\* a refresh whose 401 says what was wrong with the row
RefreshDeniedByCause(t) ==
    [status |-> 401, detail |-> IF t = 0 THEN "Invalid refresh token"
                                ELSE IF refresh_tokens[t].revoked
                                THEN "Refresh token revoked"
                                ELSE "Refresh token expired"]

\* the HTTPException of users.py line 122
RefreshDenied(t) == [status |-> 401, detail |-> "Invalid refresh token"]

\* POST /users/refresh, up to the two queries and their checks
refresh_lookup(p, token) ==
    LET t == TokenByHash(hash_token(token))
        db_token == refresh_tokens[t]
        edge == t # 0 /\ db_token.expires_at = utcnow
        head == [op |-> "refresh", token |-> token, late |-> token \in consumed,
                 reuse |-> token \in consumed, cause |-> LedgerCause(t),
                 edge |-> edge]
    IN
    /\ proc[p].pc = "idle"
    /\ IF t = 0 \/ Unusable(db_token)
       THEN /\ resp' = head @@ RefreshDenied(t)
            /\ UNCHANGED proc
       ELSE IF db_token.user_id \notin UserIds
       THEN /\ resp' = head @@ [status |-> 401, detail |-> "User not found"]
            /\ UNCHANGED proc
       ELSE /\ proc' = [proc EXCEPT ![p] = [pc |-> "rotate", token |-> token, row |-> t,
                                            late |-> token \in consumed,
                                            edge |-> edge]]
            /\ resp' = NoResp
    /\ UNCHANGED bookVars
    /\ UNCHANGED <<now, settings, users, refresh_tokens, lastOtp,
                   consumed, held>>

\* a rotation that commits the revocation before it inserts the new row
RevokedBeforeInsert(rows, t) == [rows EXCEPT ![t].revoked = TRUE]

\* the ledger when the one commit of users.py line 144 does not happen:
\* the session's pending revocation and insert are both discarded
RolledBack(rows, t) == rows

\* POST /users/refresh, the rotation and its commit
refresh_rotate(p) ==
    LET t == proc[p].row
        db_user == users[refresh_tokens[t].user_id]
        role == IF db_user.role = "" THEN "user" ELSE db_user.role
        new_access == create_access_token(db_user.id, role)
        new_refresh == create_refresh_token(db_user.id, role)
        row == NewRefreshRow(db_user.id, new_refresh) @@ [via |-> "refresh"]
        head == [op |-> "refresh", token |-> proc[p].token, late |-> proc[p].late,
                 reuse |-> proc[p].token \in consumed, cause |-> "usable",
                 edge |-> proc[p].edge]
    IN
    /\ proc[p].pc = "rotate"
    /\ proc' = [proc EXCEPT ![p] = IdleProc]
    /\ IF HashRows(row.token_hash) # {}
       THEN \* token_hash is unique: the commit fails and rolls back
            /\ resp' = head @@ [status |-> 500, detail |-> "Internal Server Error"]
            /\ refresh_tokens' = RolledBack(refresh_tokens, t)
            /\ UNCHANGED <<consumed, held>>
       ELSE /\ Len(refresh_tokens) < MaxLedger
            /\ refresh_tokens' =
                   Append(Revoke(refresh_tokens, t), row)
            /\ consumed' = consumed \cup {proc[p].token}
            /\ held' = [token |-> new_access, at |-> utcnow]
            /\ resp' = head @@ [status |-> 200, token |-> new_access,
                                refresh_token |-> new_refresh]
    /\ UNCHANGED bookVars
    /\ UNCHANGED <<now, settings, users, lastOtp>>

\* POST /users/refresh, the process dies after the checks and before the
\* commit: nothing was committed and no response is sent
refresh_crash(p) ==
    /\ proc[p].pc = "rotate"
    /\ proc' = [proc EXCEPT ![p] = IdleProc]
    /\ refresh_tokens' = RolledBack(refresh_tokens, proc[p].row)
    /\ resp' = [op |-> "crash", token |-> proc[p].token]
    /\ UNCHANGED bookVars
    /\ UNCHANGED <<now, settings, users, lastOtp, consumed, held>>

\* a validate that does not look at the type claim
IsAccessUnchecked(payload) == TRUE

\* token_type != "access" is refused
IsAccess(payload) == payload.type = "access"

\* GET /users/validate: the response to a bearer token
validate_token(token) ==
    LET d == decode_token(token)
    IN  IF d.status # 200 THEN d
        ELSE IF ~IsAccess(d.payload)
        THEN [status |-> 401, detail |-> "Invalid token type"]
        ELSE IF d.payload.id = NoId
        THEN [status |-> 401, detail |-> "Token missing user id"]
        ELSE IF d.payload.id = NonNumericId
        THEN \* int(user_id) raises ValueError, which nothing catches
             [status |-> 500, detail |-> "Internal Server Error"]
        ELSE [status |-> 200,
              body |-> [user_id |-> d.payload.id, role |-> d.payload.role]]

\* a validate that renews the caller's refresh rows on success
validate_sliding(token) ==
    LET r == validate_token(token)
    IN  /\ resp' = [op |-> "validate", token |-> token] @@ r
        /\ refresh_tokens' =
               [i \in LedgerIds |->
                   IF r.status = 200 /\ refresh_tokens[i].user_id = r.body.user_id
                   THEN [refresh_tokens[i] EXCEPT
                            !.expires_at = utcnow + timedelta_days(RefreshExpireDays)]
                   ELSE refresh_tokens[i]]
        /\ UNCHANGED bookVars
        /\ UNCHANGED <<now, settings, users, proc, lastOtp, consumed, held>>

\* GET /users/validate
validate(token) ==
    /\ resp' = [op |-> "validate", token |-> token] @@ validate_token(token)
    /\ UNCHANGED bookVars
    /\ UNCHANGED <<now, settings, users, refresh_tokens, proc,
                   lastOtp, consumed, held>>

\* a _send_email that refuses to go on without its configuration
send_email_strict(delivery) ==
    IF ~settings.email_configured THEN "HTTP 502"
    ELSE IF delivery = "ok" THEN "sent"
    ELSE "HTTP 502"

\* _send_email: what the handler gets back, given how the delivery went
send_email(delivery) ==
    IF ~settings.email_configured THEN "skipped"
    ELSE IF delivery = "ok" THEN "sent"
    ELSE "HTTP 502"

\* a forgot_password that keeps the code already pending and only renews
\* its expiry
IssueOtpKeepingPending(db_user, otp) ==
    IF db_user.reset_code_hash # NoHash
    THEN [db_user EXCEPT !.reset_code_expires_at =
                             utcnow + timedelta_minutes(OtpExpireMinutes)]
    ELSE [db_user EXCEPT !.reset_code_hash = hash_token(otp),
                         !.reset_code_expires_at =
                             utcnow + timedelta_minutes(OtpExpireMinutes)]

\* the row after forgot_password: both OTP columns overwritten
IssueOtp(db_user, otp) ==
    [db_user EXCEPT !.reset_code_hash = hash_token(otp),
                    !.reset_code_expires_at =
                        utcnow + timedelta_minutes(OtpExpireMinutes)]

\* POST /users/forgot-password
forgot_password(email, n, delivery) ==
    LET u == UserByEmail(email)
        otp == Format06d(n)
        head == [op |-> "forgot", email |-> email]
    IN
    /\ IF u = 0
       THEN /\ resp' = head @@ [status |-> 404, detail |-> "Email not registered"]
            /\ UNCHANGED <<users, lastOtp>>
       ELSE /\ users' = [users EXCEPT ![u] = IssueOtp(users[u], otp)]
            /\ lastOtp' = [lastOtp EXCEPT ![email] = [otp |-> otp, at |-> utcnow,
                                                       used |-> FALSE,
                                                       prev |-> lastOtp[email].otp]]
            /\ resp' = IF send_email(delivery) = "HTTP 502"
                       THEN head @@ [status |-> 502, detail |-> "Failed to send email.",
                                     mail |-> send_email(delivery)]
                       ELSE head @@ [status |-> 200, message |-> "OTP has been sent.",
                                     mail |-> send_email(delivery)]
    /\ UNCHANGED bookVars
    /\ UNCHANGED <<now, settings, refresh_tokens, proc, consumed, held>>

\* a reset that ignores the OTP's expiry
OtpExpiredUnchecked(db_user) == FALSE

\* db_user.reset_code_expires_at < datetime.utcnow()
OtpExpired(db_user) == db_user.reset_code_expires_at < utcnow

\* a reset that accepts any code while one is pending
OtpMismatchUnchecked(otp, db_user) == FALSE

\* auth.hash_token(payload.otp) != db_user.reset_code_hash
OtpMismatch(otp, db_user) == hash_token(otp) # db_user.reset_code_hash

\* a reset that leaves the OTP columns set
ResetRowKeepingOtp(db_user, new_password, salt) ==
    [db_user EXCEPT !.password = hash_password(new_password, salt)]

\* the row after a successful reset: new hash, both OTP columns cleared
ResetRow(db_user, new_password, salt) ==
    [db_user EXCEPT !.password = hash_password(new_password, salt),
                    !.reset_code_hash = NoHash,
                    !.reset_code_expires_at = NoTime]

\* a reset that ends the user's sessions
LedgerRevokedOnReset(u) ==
    [i \in LedgerIds |-> IF refresh_tokens[i].user_id = users[u].id
                         THEN [refresh_tokens[i] EXCEPT !.revoked = TRUE]
                         ELSE refresh_tokens[i]]

\* the ledger after a successful reset: the handler writes the user row only
LedgerAfterReset(u) == refresh_tokens

\* POST /users/reset-password
reset_password(email, otp, new_password, salt) ==
    LET u == UserByEmail(email)
        db_user == users[u]
        head == [op |-> "reset", email |-> email, otp |-> otp]
    IN
    /\ IF u = 0
       THEN /\ resp' = head @@ [status |-> 400, detail |-> "Invalid email or OTP"]
            /\ UNCHANGED users
       ELSE IF db_user.reset_code_hash = NoHash \/ db_user.reset_code_expires_at = NoTime
       THEN /\ resp' = head @@ [status |-> 400, detail |-> "OTP not requested"]
            /\ UNCHANGED users
       ELSE IF OtpExpired(db_user)
       THEN /\ resp' = head @@ [status |-> 400, detail |-> "OTP expired"]
            /\ UNCHANGED users
       ELSE IF OtpMismatch(otp, db_user)
       THEN /\ resp' = head @@ [status |-> 400, detail |-> "Invalid OTP"]
            /\ UNCHANGED users
       ELSE /\ users' = [users EXCEPT ![u] = ResetRow(db_user, new_password, salt)]
            /\ resp' = head @@ [status |-> 200, message |-> "Password updated"]
    /\ lastOtp' = IF resp'.status = 200 /\ otp = lastOtp[email].otp
                  THEN [lastOtp EXCEPT ![email].used = TRUE]
                  ELSE lastOtp
    /\ refresh_tokens' = IF resp'.status = 200 THEN LedgerAfterReset(u)
                         ELSE refresh_tokens
    /\ UNCHANGED bookVars
    /\ UNCHANGED <<now, settings, proc, consumed, held>>

\* ------------------------------------------------------------ book service
\* get_current_user: the dependency of every book endpoint
get_current_user(cred, net, unauth) ==
    IF cred = NoToken
    THEN [status |-> unauth, detail |-> "Not authenticated"]
    ELSE IF net = "down"
    THEN [status |-> 503, detail |-> "Auth service unavailable"]
    ELSE LET res == validate_token(cred)
         IN  IF res.status # 200
             THEN [status |-> 401, detail |-> "Invalid token"]
             ELSE [status |-> 200, user |-> res.body]

\* what a book request consulted on its way in: whether it carried
\* credentials, how the call to the auth service went, and what validate said
Consulted(cred, net) ==
    [sent |-> cred # NoToken,
     net |-> IF cred = NoToken THEN "unused" ELSE net,
     remote |-> IF cred = NoToken \/ net = "down" THEN 0
                ELSE validate_token(cred).status]

\* user.get("role") or "user"
RoleOf(user) == IF user.role = "" THEN "user" ELSE user.role

\* a service without the ownership filter
VisibleToAll(user_id, role, book) == TRUE

\* if role != "admin": filter(owner_id == user_id)
Visible(user_id, role, book) == role = "admin" \/ book.owner_id = user_id

\* title.ilike(f"%{title}%") over Titles
Matches(q, title) == q = "" \/ q = title

\* the rows at the positions of S, by id descending (sort = "latest")
RECURSIVE LatestFirst(_)
LatestFirst(S) ==
    IF S = {} THEN <<>>
    ELSE LET i == CHOOSE i \in S : \A j \in S : books[j].id <= books[i].id
         IN  <<books[i]>> \o LatestFirst(S \ {i})

\* the payload get_books computes from the database
Listing(user_id, role, q) ==
    LET S == {i \in BookRows : Visible(user_id, role, books[i])
                                 /\ Matches(q, books[i].title)}
    IN  [items |-> LatestFirst(S), total |-> Cardinality(S)]

\* _invalidate_books_cache: delete the keys books:{user_id}:{role}:*
\* exceptions of the redis client are swallowed
_invalidate_books_cache(user_id, role, redis) ==
    IF redis = "down" THEN cache
    ELSE [k \in CacheKeys |-> IF k[2] = user_id /\ k[3] = role THEN NoPayload
                              ELSE cache[k]]

\* the row query.first() returns in update, upload and delete: position or 0
ScopedBook(user_id, role, book_id) ==
    LET i == BookById(book_id)
    IN  IF i # 0 /\ Visible(user_id, role, books[i]) THEN i ELSE 0

\* POST /books/
add_book(cred, net, unauth, redis, title) ==
    LET auth == get_current_user(cred, net, unauth)
        head == [op |-> "add_book", auth |-> auth] @@ Consulted(cred, net)
    IN
    /\ IF auth.status # 200
       THEN /\ resp' = head @@ auth
            /\ UNCHANGED <<books, book_seq, cache>>
       ELSE LET user_id == auth.user.user_id
                new_book == [id |-> book_seq + 1, title |-> title,
                             image_url |-> NoImage, owner_id |-> user_id]
            IN  /\ book_seq + 1 \in BookIds
                /\ books' = Append(books, new_book)
                /\ book_seq' = book_seq + 1
                /\ cache' = _invalidate_books_cache(user_id, RoleOf(auth.user), redis)
                /\ resp' = head @@ [status |-> 201, body |-> new_book]
    /\ UNCHANGED reading
    /\ UNCHANGED authVars

\* GET /books/
get_books(cred, net, unauth, redis, q) ==
    LET auth == get_current_user(cred, net, unauth)
        head == [op |-> "get_books", auth |-> auth] @@ Consulted(cred, net)
    IN
    /\ IF auth.status # 200
       THEN /\ resp' = head @@ auth
            /\ UNCHANGED cache
       ELSE LET user_id == auth.user.user_id
                role == RoleOf(auth.user)
                cache_key == CacheKey(user_id, role, q)
                payload == Listing(user_id, role, q)
            IN  IF redis = "ok" /\ cache[cache_key] # NoPayload
                THEN /\ resp' = head @@ [status |-> 200, body |-> cache[cache_key],
                                         cached |-> TRUE]
                     /\ UNCHANGED cache
                ELSE /\ resp' = head @@ [status |-> 200, body |-> payload,
                                         cached |-> FALSE]
                     /\ cache' = IF redis = "ok"
                                 THEN [cache EXCEPT ![cache_key] = payload]
                                 ELSE cache
    /\ UNCHANGED <<books, book_seq>>
    /\ UNCHANGED reading
    /\ UNCHANGED authVars

\* GET /books/ in a worker that other requests overtake: up to the query
\* of lines 221-254; a cache hit, or a redis client that fails, ends the
\* request here
get_books_read(cred, net, unauth, redis, q) ==
    LET auth == get_current_user(cred, net, unauth)
        head == [op |-> "get_books", auth |-> auth] @@ Consulted(cred, net)
    IN
    /\ reading.pc = "idle"
    /\ IF auth.status # 200
       THEN /\ resp' = head @@ auth
            /\ UNCHANGED reading
       ELSE LET user_id == auth.user.user_id
                role == RoleOf(auth.user)
                cache_key == CacheKey(user_id, role, q)
                payload == Listing(user_id, role, q)
            IN  IF redis = "ok" /\ cache[cache_key] # NoPayload
                THEN /\ resp' = head @@ [status |-> 200, body |-> cache[cache_key],
                                         cached |-> TRUE]
                     /\ UNCHANGED reading
                ELSE IF redis # "ok"
                THEN /\ resp' = head @@ [status |-> 200, body |-> payload,
                                         cached |-> FALSE]
                     /\ UNCHANGED reading
                ELSE /\ reading' = [pc |-> "store", cache_key |-> cache_key,
                                    payload |-> payload, head |-> head]
                     /\ resp' = NoResp
    /\ UNCHANGED <<books, book_seq, cache>>
    /\ UNCHANGED authVars

\* GET /books/, the setex of lines 256-262 and the response
get_books_store(redis) ==
    /\ reading.pc = "store"
    /\ cache' = IF redis = "ok"
                THEN [cache EXCEPT ![reading.cache_key] = reading.payload]
                ELSE cache
    /\ resp' = reading.head @@ [status |-> 200, body |-> reading.payload,
                                cached |-> FALSE]
    /\ reading' = IdleRead
    /\ UNCHANGED <<books, book_seq>>
    /\ UNCHANGED authVars

\* PUT /books/{book_id}
update_book(cred, net, unauth, redis, book_id, title) ==
    LET auth == get_current_user(cred, net, unauth)
        head == [op |-> "update_book", auth |-> auth, book_id |-> book_id]
                    @@ Consulted(cred, net)
    IN
    /\ IF auth.status # 200
       THEN /\ resp' = head @@ auth
            /\ UNCHANGED <<books, cache>>
       ELSE LET user_id == auth.user.user_id
                role == RoleOf(auth.user)
                i == ScopedBook(user_id, role, book_id)
            IN  IF i = 0
                THEN /\ resp' = head @@ [status |-> 404, detail |-> "Book not found"]
                     /\ UNCHANGED <<books, cache>>
                ELSE /\ books' = [books EXCEPT ![i].title = title]
                     /\ cache' = _invalidate_books_cache(user_id, role, redis)
                     /\ resp' = head @@ [status |-> 200, body |-> books'[i]]
    /\ UNCHANGED book_seq
    /\ UNCHANGED reading
    /\ UNCHANGED authVars

\* POST /books/{book_id}/image; storage: how the upload to the bucket went.
\* The stored URL ends in a fresh uuid; "img" stands for any such URL.
upload_book_image(cred, net, unauth, redis, book_id, storage) ==
    LET auth == get_current_user(cred, net, unauth)
        head == [op |-> "upload_book_image", auth |-> auth, book_id |-> book_id]
                    @@ Consulted(cred, net)
    IN
    /\ IF auth.status # 200
       THEN /\ resp' = head @@ auth
            /\ UNCHANGED <<books, cache>>
       ELSE LET user_id == auth.user.user_id
                role == RoleOf(auth.user)
                i == ScopedBook(user_id, role, book_id)
            IN  IF i = 0
                THEN /\ resp' = head @@ [status |-> 404, detail |-> "Book not found"]
                     /\ UNCHANGED <<books, cache>>
                ELSE IF storage = "failed"
                THEN /\ resp' = head @@ [status |-> 502,
                                         detail |-> "Failed to upload image to storage."]
                     /\ UNCHANGED <<books, cache>>
                ELSE /\ books' = [books EXCEPT ![i].image_url = "img"]
                     /\ cache' = _invalidate_books_cache(user_id, role, redis)
                     /\ resp' = head @@ [status |-> 200, body |-> books'[i]]
    /\ UNCHANGED book_seq
    /\ UNCHANGED reading
    /\ UNCHANGED authVars

\* DELETE /books/{book_id}
delete_book(cred, net, unauth, redis, book_id) ==
    LET auth == get_current_user(cred, net, unauth)
        head == [op |-> "delete_book", auth |-> auth, book_id |-> book_id]
                    @@ Consulted(cred, net)
    IN
    /\ IF auth.status # 200
       THEN /\ resp' = head @@ auth
            /\ UNCHANGED <<books, cache>>
       ELSE LET user_id == auth.user.user_id
                role == RoleOf(auth.user)
                i == ScopedBook(user_id, role, book_id)
            IN  IF i = 0
                THEN /\ resp' = head @@ [status |-> 404, detail |-> "Book not found"]
                     /\ UNCHANGED <<books, cache>>
                ELSE /\ books' = SelectSeq(books, LAMBDA b : b.id # book_id)
                     /\ cache' = _invalidate_books_cache(user_id, role, redis)
                     /\ resp' = head @@ [status |-> 204]
    /\ UNCHANGED book_seq
    /\ UNCHANGED reading
    /\ UNCHANGED authVars

\* redis drops a key whose TTL (setex, 300 s) has run out
cache_expire(k) ==
    /\ cache[k] # NoPayload
    /\ cache' = [cache EXCEPT ![k] = NoPayload]
    /\ resp' = NoResp
    /\ UNCHANGED <<books, book_seq>>
    /\ UNCHANGED reading
    /\ UNCHANGED authVars

\* the clock advances by one tick
Tick ==
    /\ now < MaxTime
    /\ now' = now + 1
    /\ resp' = NoResp
    /\ UNCHANGED bookVars
    /\ UNCHANGED <<settings, users, refresh_tokens, proc, lastOtp,
                   consumed, held>>

\* ------------------------------------------------------------ specification
Register == \E n \in Names, e \in Emails, p \in Passwords, s \in Salts : register(n, e, p, s)

Login == \E e \in Emails, p \in Passwords : login(e, p)

RefreshLookup == \E p \in Procs, t \in PresentedTokens : refresh_lookup(p, t)

RefreshRotate == \E p \in Procs : refresh_rotate(p)

RefreshCrash == \E p \in Procs : refresh_crash(p)

Validate == \E t \in PresentedTokens : validate(t)

ForgotPassword ==
    \E e \in Emails, n \in OtpDraws, d \in {"ok", "failed"} : forgot_password(e, n, d)

ResetPassword ==
    \E e \in Emails, o \in OtpInputs, p \in Passwords, s \in Salts :
        reset_password(e, o, p, s)

AddBook ==
    \E a \in BookRequests, r \in {"ok", "down"}, t \in Titles :
        add_book(a[1], a[2], a[3], r, t)

GetBooks ==
    \E a \in BookRequests, r \in {"ok", "down"}, q \in QueryTitles :
        get_books(a[1], a[2], a[3], r, q)

UpdateBook ==
    \E a \in BookRequests, r \in {"ok", "down"}, b \in BookIds, t \in Titles :
        update_book(a[1], a[2], a[3], r, b, t)

UploadBookImage ==
    \E a \in BookRequests, r \in {"ok", "down"}, b \in BookIds,
       g \in {"ok", "failed"} :
        upload_book_image(a[1], a[2], a[3], r, b, g)

DeleteBook ==
    \E a \in BookRequests, r \in {"ok", "down"}, b \in BookIds :
        delete_book(a[1], a[2], a[3], r, b)

CacheExpire == \E k \in CacheKeys : cache_expire(k)

\* the whole service
Next ==
    \/ Register
    \/ Login
    \/ RefreshLookup
    \/ RefreshRotate
    \/ RefreshCrash
    \/ Validate
    \/ ForgotPassword
    \/ ResetPassword
    \/ AddBook
    \/ GetBooks
    \/ UpdateBook
    \/ UploadBookImage
    \/ DeleteBook
    \/ CacheExpire
    \/ Tick

Spec == Init /\ [][Next]_vars

\* The token lifecycle: the handlers that read or write refresh_tokens or
\* read a token.  forgot_password and reset_password write only the password
\* and OTP columns of users, which of these handlers only login reads.
RegisterAnn == \E n \in Names : register(n, "a@x.com", "secret1", "s1")

InitTokens == Init /\ ~settings.email_configured

NextTokens ==
    \/ RegisterAnn
    \/ Login
    \/ RefreshLookup
    \/ RefreshRotate
    \/ RefreshCrash
    \/ Validate
    \/ Tick

SpecTokens == InitTokens /\ [][NextTokens]_vars

\* The accounts: two users registering, logging in and presenting the
\* access tokens they were given.
RegisterOneSalt ==
    \E n \in Names, e \in Emails, p \in Passwords : register(n, e, p, "s1")

NextAccounts ==
    \/ RegisterOneSalt
    \/ Login
    \/ Validate
    \/ Tick

SpecAccounts == InitTokens /\ [][NextAccounts]_vars

\* The book service: callers presenting tokens to the book endpoints; the
\* auth service is reached only through validate, which reads no table.
InitBooks == InitTokens /\ settings.ACCESS_TOKEN_EXPIRE_MINUTES = MaxAccessMinutes

NextBooks ==
    \/ AddBook
    \/ GetBooks
    \/ UpdateBook
    \/ UploadBookImage
    \/ DeleteBook
    \/ CacheExpire

SpecBooks == InitBooks /\ [][NextBooks]_vars

\* The token check alone: validate on every token, at every time.
ValidateAny == \E t \in AnyTokens : validate(t)

NextValidate ==
    \/ ValidateAny
    \/ Tick

SpecValidate == InitTokens /\ [][NextValidate]_vars

\* Sessions across a credential reset: one user logging in, refreshing,
\* and resetting the password with the code issued.
ForgotAnn == \E n \in {7} : forgot_password("a@x.com", n, "ok")

ResetAnn ==
    \E o \in {Format06d(7)}, p \in Passwords : reset_password("a@x.com", o, p, "s1")

LoginAnn == \E p \in Passwords : login("a@x.com", p)

RefreshLookupAlone == \E t \in IssuedRefreshTokens : refresh_lookup(1, t)

RefreshRotateAlone == refresh_rotate(1)

NextSessions ==
    \/ RegisterAnn
    \/ LoginAnn
    \/ RefreshLookupAlone
    \/ RefreshRotateAlone
    \/ ForgotAnn
    \/ ResetAnn
    \/ Tick

SpecSessions == InitBooks /\ [][NextSessions]_vars

\* Concurrent registrations: the check and the commit of each request are
\* separate steps.
RegisterCheck ==
    \E p \in Procs, n \in Names, e \in Emails, w \in Passwords, s \in Salts :
        register_check(p, n, e, w, s)

RegisterCommit == \E p \in Procs : register_commit(p)

NextRegisterRace ==
    \/ RegisterCheck
    \/ RegisterCommit

SpecRegisterRace == InitBooks /\ [][NextRegisterRace]_vars

\* The cache of one user: that user's requests alone, redis working, and
\* one get_books that the user's other requests may overtake.
OwnRequests == {<<create_access_token(1, "user"), "up", 401>>}

GetBooksRead ==
    \E a \in OwnRequests, q \in QueryTitles : get_books_read(a[1], a[2], a[3], "ok", q)

GetBooksStore == get_books_store("ok")

OwnAddBook == \E a \in OwnRequests, t \in Titles : add_book(a[1], a[2], a[3], "ok", t)

OwnUpdateBook ==
    \E a \in OwnRequests, b \in BookIds, t \in Titles :
        update_book(a[1], a[2], a[3], "ok", b, t)

OwnUploadBookImage ==
    \E a \in OwnRequests, b \in BookIds :
        upload_book_image(a[1], a[2], a[3], "ok", b, "ok")

OwnDeleteBook ==
    \E a \in OwnRequests, b \in BookIds : delete_book(a[1], a[2], a[3], "ok", b)

NextCacheOwn ==
    \/ OwnAddBook
    \/ GetBooksRead
    \/ GetBooksStore
    \/ OwnUpdateBook
    \/ OwnUploadBookImage
    \/ OwnDeleteBook

SpecCacheOwn == InitBooks /\ [][NextCacheOwn]_vars

\* The cache across callers: every caller's requests, redis working, each
\* request running to its end before the next.
CallerRequests == {<<t, "up", 401>> : t \in BookTokens}

AllAddBook == \E a \in CallerRequests, t \in Titles : add_book(a[1], a[2], a[3], "ok", t)

AllGetBooks ==
    \E a \in CallerRequests, q \in QueryTitles : get_books(a[1], a[2], a[3], "ok", q)

AllUpdateBook ==
    \E a \in CallerRequests, b \in BookIds, t \in Titles :
        update_book(a[1], a[2], a[3], "ok", b, t)

AllUploadBookImage ==
    \E a \in CallerRequests, b \in BookIds :
        upload_book_image(a[1], a[2], a[3], "ok", b, "ok")

AllDeleteBook ==
    \E a \in CallerRequests, b \in BookIds : delete_book(a[1], a[2], a[3], "ok", b)

NextCacheAll ==
    \/ AllAddBook
    \/ AllGetBooks
    \/ AllUpdateBook
    \/ AllUploadBookImage
    \/ AllDeleteBook

SpecCacheAll == InitBooks /\ [][NextCacheAll]_vars

\* The credential reset: the handlers that read or write the OTP columns.
InitReset == Init /\ settings.ACCESS_TOKEN_EXPIRE_MINUTES = 0

RegisterOne == \E n \in Names, p \in Passwords, s \in Salts : register(n, "a@x.com", p, s)

NextReset ==
    \/ RegisterOne
    \/ ForgotPassword
    \/ ResetPassword
    \/ Tick

SpecReset == InitReset /\ [][NextReset]_vars

\* ------------------------------------------------------------ properties
OtpTtl == timedelta_minutes(OtpExpireMinutes)

AccessTtl == timedelta_minutes(settings.ACCESS_TOKEN_EXPIRE_MINUTES)

\* C1: a login with the email and password a register succeeded with gets
\* 200, and validate on the access token it returns answers 200 with the id
\* of the record that register created and role "user".
C1_LoginAfterRegister ==
    (/\ resp.op = "login"
     /\ EmailRows(resp.email) # {}
     /\ verify_password(resp.password, users[UserByEmail(resp.email)].password))
    => /\ resp.status = 200
       /\ validate_token(resp.token) =
              [status |-> 200,
               body |-> [user_id |-> users[UserByEmail(resp.email)].id,
                         role |-> "user"]]

\* C2: a refresh request that arrives after a refresh of the same token has
\* succeeded never passes the ledger check and is answered 401.
C2_RefreshSingleUse ==
    /\ (resp.op = "refresh" /\ resp.late) => resp.status = 401
    /\ \A p \in Procs : proc[p].pc = "rotate" => ~proc[p].late

C2_Witness ==
    /\ resp.op = "refresh"
    /\ resp.late
    /\ resp.token \in consumed
    /\ resp.status = 401

\* C3: of the refresh requests racing on one valid token exactly one
\* succeeds: no request is answered 200 once another request has rotated
\* the token it carries.
C3_RaceHasOneWinner ==
    (resp.op = "refresh" /\ resp.reuse) => resp.status # 200

\* C4: validate never answers 200 to a token whose type claim is "refresh",
\* and rejects with 401 every refresh token that login or refresh returns.
C4_ValidateRejectsRefresh ==
    /\ (resp.op = "validate" /\ resp.token.type = "refresh") => resp.status = 401
    /\ (resp.op \in {"login", "refresh"} /\ resp.status = 200)
          => validate_token(resp.refresh_token).status = 401

C4_Witness ==
    /\ resp.op = "validate"
    /\ resp.token.type = "refresh"
    /\ resp.token.sig = "HS256"
    /\ ~jwt_expired(resp.token)
    /\ hash_token(resp.token) \in {refresh_tokens[i].token_hash : i \in LedgerIds}
    /\ resp.status = 401

\* C5: a register for a new email answers 201, a register for an email that
\* already has a record answers 409 and leaves the users table unchanged,
\* and either way the table then holds exactly one record for that email.
C5_DuplicateRegister ==
    [][resp'.op = "register" =>
          /\ IF EmailRows(resp'.email) # {}
             THEN resp'.status = 409 /\ users' = users
             ELSE resp'.status = 201
          /\ Cardinality({i \in 1..Len(users') : users'[i].email = resp'.email}) = 1
      ]_vars

C5_Witness ==
    /\ resp.op = "register"
    /\ resp.status = 409
    /\ Cardinality(EmailRows(resp.email)) = 1
    /\ Len(users) = 2

\* C6: validate answers 401 to an access token issued with a TTL d > 0 at
\* every time later than its issue time plus d.
C6_AccessTokenExpires ==
    (/\ resp.op = "validate"
     /\ held # NoHeld
     /\ resp.token = held.token
     /\ AccessTtl > 0
     /\ now > held.at + AccessTtl)
    => resp.status = 401

\* C7: validate answers 401 to an access token issued with TTL 0, at every
\* time from its issue instant on.
C7_ZeroTtlRejected ==
    (/\ resp.op = "validate"
     /\ held # NoHeld
     /\ resp.token = held.token
     /\ settings.ACCESS_TOKEN_EXPIRE_MINUTES = 0
     /\ now >= held.at)
    => resp.status = 401

\* C8: a reset with the code most recently issued, not yet used and before
\* its expiry, answers 200 and clears both OTP columns; once that code has
\* been used every reset answers 400 until forgot_password issues a new one.
C8_OtpSingleUse ==
    [][resp'.op = "reset" =>
          LET g == lastOtp[resp'.email]
              u == UserByEmail(resp'.email)
          IN  /\ (g.at # NoTime /\ ~g.used /\ resp'.otp = g.otp /\ now < g.at + OtpTtl)
                    => /\ resp'.status = 200
                       /\ users'[u].reset_code_hash = NoHash
                       /\ users'[u].reset_code_expires_at = NoTime
              /\ g.used => resp'.status = 400
      ]_vars

C8_Witness ==
    /\ resp.op = "reset"
    /\ lastOtp[resp.email].used
    /\ resp.otp = lastOtp[resp.email].otp
    /\ now < lastOtp[resp.email].at + OtpTtl
    /\ resp.status = 400

\* C9: a reset whose otp is not the code most recently issued to the user
\* answers 400 and changes no password hash.
C9_WrongOtpRejected ==
    [][(resp'.op = "reset" /\ resp'.otp # lastOtp[resp'.email].otp) =>
          /\ resp'.status = 400
          /\ \A i \in UserIds : users'[i].password = users[i].password
      ]_vars

C9_Witness ==
    /\ resp.op = "reset"
    /\ lastOtp[resp.email].at # NoTime
    /\ ~lastOtp[resp.email].used
    /\ now < lastOtp[resp.email].at + OtpTtl
    /\ resp.otp # lastOtp[resp.email].otp
    /\ resp.status = 400

\* C10: a reset with the code most recently issued answers 400 and changes
\* no password hash when it comes later than that code's expiry.
C10_ExpiredOtpRejected ==
    [][(/\ resp'.op = "reset"
        /\ lastOtp[resp'.email].at # NoTime
        /\ resp'.otp = lastOtp[resp'.email].otp
        /\ now > lastOtp[resp'.email].at + OtpTtl) =>
          /\ resp'.status = 400
          /\ \A i \in UserIds : users'[i].password = users[i].password
      ]_vars

C10_Witness ==
    /\ resp.op = "reset"
    /\ lastOtp[resp.email].at # NoTime
    /\ ~lastOtp[resp.email].used
    /\ resp.otp = lastOtp[resp.email].otp
    /\ now > lastOtp[resp.email].at + OtpTtl
    /\ resp.status = 400

C12_ResetFailuresAlike ==
    (resp.op = "reset" /\ resp.status # 200)
    => /\ resp.status = 400
       /\ resp.detail = "Invalid email or OTP"

\* C14: a login that fails because the email is unknown and a login that
\* fails because the password is wrong get the same response: the status
\* and body given for an unknown email.
C14_LoginFailuresAlike ==
    (/\ resp.op = "login"
     /\ \/ EmailRows(resp.email) = {}
        \/ ~verify_password(resp.password, users[UserByEmail(resp.email)].password))
    => /\ resp.status = 400
       /\ resp.detail = "User not found"

\* C13: a refresh whose token hash is absent from the ledger, or matches a
\* revoked row, or matches an expired row, is answered 401 with the one
\* body "Invalid refresh token".
C13_RefreshFailuresAlike ==
    (resp.op = "refresh" /\ resp.cause \in {"absent", "revoked", "expired"})
    => /\ resp.status = 401
       /\ resp.detail = "Invalid refresh token"

C13_Witness ==
    /\ resp.op = "refresh"
    /\ resp.cause = "expired"
    /\ resp.token.sig = "HS256"
    /\ resp.status = 401
    /\ \E i \in LedgerIds : refresh_tokens[i].revoked
    /\ resp.detail = "Invalid refresh token"

\* C17: a validate step leaves the users table and the ledger unchanged,
\* and no step that leaves the clock alone changes what validate answers
\* to any token.
C17_ValidateIsPure ==
    [][/\ resp'.op = "validate" => (users' = users /\ refresh_tokens' = refresh_tokens)
       /\ now' = now =>
              \A t \in PresentedTokens : validate_token(t)' = validate_token(t)
      ]_vars

C17_Witness ==
    /\ resp.op = "validate"
    /\ resp.status = 200
    /\ Len(refresh_tokens) >= 2
    /\ \E i \in LedgerIds : refresh_tokens[i].revoked
    /\ \E p \in Procs : proc[p].pc = "rotate"

\* C18: a step that revokes a ledger row appends, in the same step, a
\* usable row for the same user; a refresh that fails or dies changes no
\* ledger row, so every user who had a usable row still has one.
C18_RotationAtomic ==
    [][/\ \A i \in LedgerIds :
              (~refresh_tokens[i].revoked /\ refresh_tokens'[i].revoked)
              => /\ Len(refresh_tokens') = Len(refresh_tokens) + 1
                 /\ LET new == refresh_tokens'[Len(refresh_tokens')]
                    IN  /\ new.user_id = refresh_tokens[i].user_id
                        /\ ~new.revoked
                        /\ new.expires_at > now
       /\ (resp'.op = "crash" \/ (resp'.op = "refresh" /\ resp'.status # 200))
              => /\ refresh_tokens' = refresh_tokens
                 /\ \A u \in UserIds :
                       (\E i \in LedgerIds : /\ refresh_tokens[i].user_id = u
                                              /\ ~Unusable(refresh_tokens[i]))
                       => (\E i \in LedgerIds : /\ refresh_tokens'[i].user_id = u
                                                 /\ ~refresh_tokens'[i].revoked
                                                 /\ refresh_tokens'[i].expires_at >= now')
      ]_vars

C18_Witness ==
    /\ resp.op = "refresh"
    /\ resp.status = 500
    /\ resp.cause = "usable"
    /\ ~refresh_tokens[TokenByHash(hash_token(resp.token))].revoked

\* C19: a refresh is answered 200 only if the row it found had expires_at
\* strictly later than the time the request arrived.
C19_UsableOnlyBeforeExpiry ==
    (resp.op = "refresh" /\ resp.status = 200) => ~resp.edge

\* C20: in every step the ledger keeps every row it had, with the same
\* user_id, token_hash and expires_at, and a revoked row stays revoked.
C20_LedgerAppendOnly ==
    [][/\ Len(refresh_tokens') >= Len(refresh_tokens)
       /\ \A i \in LedgerIds :
              /\ refresh_tokens'[i].user_id = refresh_tokens[i].user_id
              /\ refresh_tokens'[i].token_hash = refresh_tokens[i].token_hash
              /\ refresh_tokens'[i].expires_at = refresh_tokens[i].expires_at
              /\ refresh_tokens[i].revoked => refresh_tokens'[i].revoked
      ]_vars

C20_Witness ==
    /\ resp.op = "refresh"
    /\ resp.status = 200
    /\ Len(refresh_tokens) = MaxLedger
    /\ Cardinality({i \in LedgerIds : refresh_tokens[i].revoked}) >= 2

\* the book endpoints that sit behind get_current_user
BookOps == {"add_book", "get_books", "update_book", "upload_book_image", "delete_book"}

\* C15: a book request without bearer credentials ends with 401, one whose
\* call to validate fails at the network level ends with 503, and one whose
\* call to validate returns a status other than 200 ends with 401.
C15_FailsClosed ==
    resp.op \in BookOps =>
        /\ ~resp.sent => resp.status = 401
        /\ (resp.sent /\ resp.net = "down") => resp.status = 503
        /\ (resp.sent /\ resp.net = "up" /\ resp.remote # 200) => resp.status = 401

\* C16: a caller whose role is not "admin" leaves every book of another
\* owner in the table unchanged, gets 404 when it updates, re-images or
\* deletes such a book, and is listed only books it owns; a caller whose
\* role is "admin" is never refused a book that exists, and its listing
\* computed from the table has every row.
C16_OwnershipScoping ==
    [][(resp'.op \in BookOps /\ resp'.auth.status = 200) =>
          LET user_id == resp'.auth.user.user_id
              role == resp'.auth.user.role
              writes == {"update_book", "upload_book_image", "delete_book"}
          IN  /\ role # "admin" =>
                    /\ \A i \in BookRows :
                          books[i].owner_id # user_id
                          => \E j \in 1..Len(books') : books'[j] = books[i]
                    /\ (/\ resp'.op \in writes
                        /\ BookById(resp'.book_id) # 0
                        /\ books[BookById(resp'.book_id)].owner_id # user_id)
                          => (resp'.status = 404 /\ books' = books)
                    /\ (resp'.op = "get_books" /\ resp'.status = 200)
                          => \A k \in 1..Len(resp'.body.items) :
                                resp'.body.items[k].owner_id = user_id
              /\ role = "admin" =>
                    /\ (resp'.op \in writes /\ BookById(resp'.book_id) # 0)
                          => resp'.status # 404
                    /\ (resp'.op = "get_books" /\ ~resp'.cached)
                          => resp'.body.total = Len(books)
      ]_vars

C16_Witness ==
    /\ resp.op = "delete_book"
    /\ resp.auth.status = 200
    /\ resp.auth.user.role = "user"
    /\ BookById(resp.book_id) # 0
    /\ books[BookById(resp.book_id)].owner_id # resp.auth.user.user_id
    /\ books[BookById(resp.book_id)].image_url # NoImage
    /\ resp.status = 404

\* C21: with the API key or the sender unset, forgot_password for a
\* registered email answers 200, sends nothing, and stores the hash of the
\* code and the expiry now + 15 minutes, as it does when both are set.
C21_UnconfiguredNotifier ==
    [][(resp'.op = "forgot" /\ EmailRows(resp'.email) # {}) =>
          LET u == UserByEmail(resp'.email)
          IN  /\ users'[u].reset_code_hash = hash_token(lastOtp'[resp'.email].otp)
              /\ users'[u].reset_code_expires_at = now + OtpTtl
              /\ ~settings.email_configured
                    => (resp'.status = 200 /\ resp'.mail = "skipped")
      ]_vars

C21_Witness ==
    /\ resp.op = "forgot"
    /\ EmailRows(resp.email) # {}
    /\ ~settings.email_configured
    /\ resp.status = 200
    /\ resp.mail = "skipped"
    /\ users[UserByEmail(resp.email)].reset_code_expires_at = now + OtpTtl

\* C22: validate answers 401 to every token whose signature is invalid,
\* whose exp has passed, whose type is not "access", or whose id claim is
\* missing or not a number.
C22_ValidateOnly401 ==
    (/\ resp.op = "validate"
     /\ \/ resp.token.sig # "HS256"
        \/ jwt_expired(resp.token)
        \/ resp.token.type # "access"
        \/ resp.token.id \in {NoId, NonNumericId})
    => resp.status = 401

\* C23: a register, login, refresh, forgot_password or reset_password that
\* reports an error leaves every users row and every ledger row as it was.
C23_ErrorLeavesNoTrace ==
    [][(/\ resp'.op \in {"register", "login", "refresh", "forgot", "reset"}
        /\ resp'.status \notin {200, 201})
          => (users' = users /\ refresh_tokens' = refresh_tokens)
      ]_vars

\* C24: every login with correct credentials and every refresh that found a
\* usable row answers 200 and appends exactly one ledger row, not revoked,
\* whose token_hash no earlier row has.
C24_FreshLedgerRecord ==
    [][(\/ /\ resp'.op = "login"
           /\ EmailRows(resp'.email) # {}
           /\ verify_password(resp'.password,
                              users[UserByEmail(resp'.email)].password)
        \/ /\ resp'.op = "refresh"
           /\ resp'.cause = "usable")
          => /\ resp'.status = 200
             /\ Len(refresh_tokens') = Len(refresh_tokens) + 1
             /\ ~refresh_tokens'[Len(refresh_tokens')].revoked
             /\ HashRows(refresh_tokens'[Len(refresh_tokens')].token_hash) = {}
      ]_vars

\* C25: for every user the number of ledger rows that are not revoked and
\* not expired is at most the number of that user's successful logins.
C25_UsableAtMostLogins ==
    \A u \in UserIds :
        Cardinality({i \in LedgerIds : /\ refresh_tokens[i].user_id = u
                                       /\ ~Unusable(refresh_tokens[i])})
            <= Cardinality({i \in LedgerIds : /\ refresh_tokens[i].user_id = u
                                              /\ refresh_tokens[i].via = "login"})

\* C26: forgot_password and reset_password leave the ledger unchanged, and
\* every refresh token whose row was usable before such a step still has a
\* usable row, with its owner present, after it.
C26_ResetKeepsSessions ==
    [][resp'.op \in {"forgot", "reset"} =>
          /\ refresh_tokens' = refresh_tokens
          /\ \A t \in IssuedRefreshTokens :
                LedgerCause(TokenByHash(hash_token(t))) = "usable"
                => /\ (LedgerCause(TokenByHash(hash_token(t))) = "usable")'
                   /\ (refresh_tokens[TokenByHash(hash_token(t))].user_id \in UserIds)'
      ]_vars

C26_Witness ==
    /\ resp.op = "reset"
    /\ resp.status = 200
    /\ \E i \in LedgerIds :
          /\ refresh_tokens[i].user_id = users[UserByEmail(resp.email)].id
          /\ refresh_tokens[i].via = "refresh"
          /\ ~Unusable(refresh_tokens[i])

\* C27: once a reset has replaced the password a user registered with, a
\* login with the replaced password fails and a login with the password of
\* the last successful reset succeeds.
C27_LoginAfterReset ==
    (/\ resp.op = "login"
     /\ EmailRows(resp.email) # {}
     /\ ~verify_password("secret1", users[UserByEmail(resp.email)].password))
    => IF verify_password(resp.password, users[UserByEmail(resp.email)].password)
       THEN resp.status = 200
       ELSE resp.status = 400

\* C30: when register calls for one email run concurrently, the table ends
\* with exactly one row for the email and every call that does not answer
\* 201 answers 409.
C30_RegisterRace ==
    (resp.op = "register" /\ resp.status # 201)
    => /\ resp.status = 409
       /\ Cardinality(EmailRows(resp.email)) = 1

\* C28: with only one user writing and reading, a get_books answered from
\* the cache returns the listing of the table as it is, whatever get_books
\* of that user was in flight during the user's writes.
C28_WriterSeesOwnWrite ==
    (resp.op = "get_books" /\ resp.status = 200 /\ resp.cached)
    => resp.body = Listing(resp.auth.user.user_id, RoleOf(resp.auth.user), "")

\* C29: with every request running to its end before the next, a get_books
\* of any caller returns the listing of that caller's visible books as
\* they are after the writes of all callers.
C29_ReadersSeeAllWrites ==
    (resp.op = "get_books" /\ resp.status = 200 /\ reading.pc = "idle")
    => resp.body = Listing(resp.auth.user.user_id, RoleOf(resp.auth.user), "")

====
